---- MODULE Spec2Model ----
(***************************************************************************)
(* Model of src/src/sidebar/util/search-filter.js: the parser of           *)
(* annotation filter queries (splitTerm, removeSurroundingQuotes,          *)
(* tokenize, toObject, generateFacetedFilter).                             *)
(*                                                                         *)
(* A JavaScript string is a sequence of one-character strings.  A query is *)
(* typed piece by piece (TypePiece) and the parser's functions are then    *)
(* applied to it, one action per function.                                 *)
(***************************************************************************)
EXTENDS Integers, Sequences, FiniteSets, TLC

VARIABLES searchText, pieces, focusFilters, called, arg, ret

vars == <<searchText, pieces, focusFilters, called, arg, ret>>

(***************************************************************************)
(* Bounds of the model.                                                    *)
(***************************************************************************)
\* Number of pieces a typed query is made of.
MaxPieces == 3

(***************************************************************************)
(* JavaScript primitives.                                                  *)
(***************************************************************************)
Min(a, b) == IF a < b THEN a ELSE b
Max(a, b) == IF a > b THEN a ELSE b

\* A relative index of String.prototype.slice, clamped to 0..len.
ClampIndex(i, len) == IF i < 0 THEN Max(len + i, 0) ELSE Min(i, len)

\* s.slice(from, to), 0-based, negative indexes counted from the end.
Slice(s, from, to) ==
  LET b == ClampIndex(from, Len(s))
      e == ClampIndex(to, Len(s))
  IN  IF b >= e THEN <<>> ELSE SubSeq(s, b + 1, e)

\* s.slice(from)
SliceFrom(s, from) == Slice(s, from, Len(s))

\* s.indexOf(c) from position `from`: 0-based index of the first c, or -1.
IndexOfFrom(s, c, from) ==
  LET hits == {i \in (from + 1)..Len(s) : s[i] = c}
  IN  IF hits = {} THEN -1
      ELSE (CHOOSE i \in hits : \A j \in hits : i <= j) - 1

IndexOf(s, c) == IndexOfFrom(s, c, 0)

\* The characters \s matches, among those a query of the model can hold.
Whitespace == {" ", "\t", "\n"}

\* The characters \d matches.
Digits == {"0", "1", "2", "3", "4", "5", "6", "7", "8", "9"}

DigitValue(c) ==
  CASE c = "0" -> 0 [] c = "1" -> 1 [] c = "2" -> 2 [] c = "3" -> 3
    [] c = "4" -> 4 [] c = "5" -> 5 [] c = "6" -> 6 [] c = "7" -> 7
    [] c = "8" -> 8 [] c = "9" -> 9

\* String.prototype.toLowerCase on one character.
LowerChar(c) ==
  CASE c = "A" -> "a" [] c = "B" -> "b" [] c = "C" -> "c" [] c = "D" -> "d"
    [] c = "E" -> "e" [] c = "F" -> "f" [] c = "G" -> "g" [] c = "H" -> "h"
    [] c = "I" -> "i" [] c = "J" -> "j" [] c = "K" -> "k" [] c = "L" -> "l"
    [] c = "M" -> "m" [] c = "N" -> "n" [] c = "O" -> "o" [] c = "P" -> "p"
    [] c = "Q" -> "q" [] c = "R" -> "r" [] c = "S" -> "s" [] c = "T" -> "t"
    [] c = "U" -> "u" [] c = "V" -> "v" [] c = "W" -> "w" [] c = "X" -> "x"
    [] c = "Y" -> "y" [] c = "Z" -> "z" [] OTHER -> c

ToLowerCase(s) == [i \in 1..Len(s) |-> LowerChar(s[i])]

\* parseFloat of a non-empty string of decimal digits.
RECURSIVE ParseFloat(_)
ParseFloat(s) ==
  IF s = <<>> THEN 0
  ELSE 10 * ParseFloat(SubSeq(s, 1, Len(s) - 1)) + DigitValue(s[Len(s)])

(***************************************************************************)
(* The field names, as strings.                                            *)
(***************************************************************************)
K_any   == <<"a", "n", "y">>
K_group == <<"g", "r", "o", "u", "p">>
K_quote == <<"q", "u", "o", "t", "e">>
K_since == <<"s", "i", "n", "c", "e">>
K_tag   == <<"t", "a", "g">>
K_tags  == <<"t", "a", "g", "s">>
K_text  == <<"t", "e", "x", "t">>
K_uri   == <<"u", "r", "i">>
K_user  == <<"u", "s", "e", "r">>

\* The value null / undefined of a field or of an argument.
Null == <<"\\0">>

\* The list of filters splitTerm recognizes.
SplitTermFilters ==
  <<K_group, K_quote, K_since, K_tag, K_text, K_uri, K_user>>

\* Array.prototype.includes
Includes(list, x) == \E i \in 1..Len(list) : list[i] = x

(***************************************************************************)
(* splitTerm(term): [filter, data].                                        *)
(***************************************************************************)
\* splitTerm with the filter compared case-insensitively.
SplitTerm_CaseInsensitive(term) ==
  LET filter == Slice(term, 0, IndexOf(term, ":"))
  IN  IF filter = <<>>
      THEN [filter |-> Null, data |-> term]
      ELSE IF Includes(SplitTermFilters, ToLowerCase(filter))
           THEN [filter |-> filter, data |-> SliceFrom(term, Len(filter) + 1)]
           ELSE [filter |-> Null, data |-> term]

SplitTerm(term) ==
  LET filter == Slice(term, 0, IndexOf(term, ":"))
  IN  IF filter = <<>>
      THEN [filter |-> Null, data |-> term]
      ELSE IF Includes(SplitTermFilters, filter)
           THEN [filter |-> filter, data |-> SliceFrom(term, Len(filter) + 1)]
           ELSE [filter |-> Null, data |-> term]

(***************************************************************************)
(* removeSurroundingQuotes(text)                                           *)
(***************************************************************************)
DQ == "\""
SQ == "'"

RemoveSurroundingQuotes(text) ==
  LET start == Slice(text, 0, 1)
      end   == SliceFrom(text, -1)
  IN  IF (start = <<DQ>> \/ start = <<SQ>>) /\ start = end
      THEN Slice(text, 1, Len(text) - 1)
      ELSE text

(***************************************************************************)
(* searchText.match(/(?:[^\s"']+|"[^"]*"|'[^']*')+/g)                      *)
(***************************************************************************)
\* [^\s"']
IsBare(c) == c \notin Whitespace /\ c # DQ /\ c # SQ

\* End of the longest run of [^\s"'] that starts at 0-based position i.
RECURSIVE BareRunEnd(_, _)
BareRunEnd(s, i) ==
  IF i < Len(s) /\ IsBare(s[i + 1]) THEN BareRunEnd(s, i + 1) ELSE i

\* Position after one alternative of the group matched at position i, or i
\* when no alternative matches there.  The alternatives start with different
\* characters, so at most one applies.
AlternativeEnd(s, i) ==
  IF i >= Len(s) THEN i
  ELSE LET c == s[i + 1]
       IN  IF IsBare(c) THEN BareRunEnd(s, i)
           ELSE IF c = DQ \/ c = SQ
                THEN LET close == IndexOfFrom(s, c, i + 1)
                     IN  IF close = -1 THEN i ELSE close + 1
                ELSE i

\* Position after the greedy repetition (...)+ started at position i; i when
\* the group does not match even once.
RECURSIVE GroupEnd(_, _)
GroupEnd(s, i) ==
  LET e == AlternativeEnd(s, i)
  IN  IF e = i THEN i ELSE GroupEnd(s, e)

\* The successive matches of the /g regular expression from position i on.
RECURSIVE MatchesFrom(_, _)
MatchesFrom(s, i) ==
  IF i >= Len(s) THEN <<>>
  ELSE LET e == GroupEnd(s, i)
       IN  IF e = i THEN MatchesFrom(s, i + 1)
           ELSE <<Slice(s, i, e)>> \o MatchesFrom(s, e)

\* String.prototype.match with a /g expression: null when nothing matches.
StringMatch(s) ==
  LET found == MatchesFrom(s, 0)
  IN  IF found = <<>> THEN [isNull |-> TRUE, list |-> <<>>]
      ELSE [isNull |-> FALSE, list |-> found]

(***************************************************************************)
(* Array helpers.                                                          *)
(***************************************************************************)
RECURSIVE FilterNonEmpty(_)
\* The filter keeping the empty tokens.
FilterNonEmpty_KeepsAll(list) == list

FilterNonEmpty(list) ==
  IF list = <<>> THEN <<>>
  ELSE IF Len(Head(list)) > 0
       THEN <<Head(list)>> \o FilterNonEmpty(Tail(list))
       ELSE FilterNonEmpty(Tail(list))

(***************************************************************************)
(* tokenize(searchText).  A call returns [threw, value]: threw is TRUE     *)
(* when the call raises a TypeError instead of returning.                  *)
(***************************************************************************)
Returned(v) == [threw |-> FALSE, value |-> v]
Threw == [threw |-> TRUE, value |-> <<>>]

\* The tokens after .map(removeSurroundingQuotes).filter(length > 0): the
\* arguments of splitTerm in tokenize.
StrippedTokens(tokenMatches) ==
  FilterNonEmpty([i \in 1..Len(tokenMatches) |->
                    RemoveSurroundingQuotes(tokenMatches[i])])
\* The callback of the last .map returning the token as it is.
StripFieldValue_Identity(token) == token

\* The callback of the last .map of tokenize.
StripFieldValue(token) ==
  LET st == SplitTerm(token)
  IN  IF st.filter # Null
      THEN st.filter \o <<":">> \o RemoveSurroundingQuotes(st.data)
      ELSE token
\* tokenize without the test of a null match: null.map raises a TypeError.
Tokenize_NoNullCheck(text) ==
  LET tokenMatches == StringMatch(text)
  IN  IF tokenMatches.isNull
      THEN Threw
      ELSE LET stripped == StrippedTokens(tokenMatches.list)
           IN  Returned([i \in 1..Len(stripped) |-> StripFieldValue(stripped[i])])

Tokenize(text) ==
  LET tokenMatches == StringMatch(text)
  IN  IF tokenMatches.isNull
      THEN Returned(<<>>)
      ELSE LET stripped == StrippedTokens(tokenMatches.list)
           IN  Returned([i \in 1..Len(stripped) |-> StripFieldValue(stripped[i])])

(***************************************************************************)
(* toObject(searchText): the map of search field to terms, as the list of  *)
(* its entries [key, values] in insertion order.                           *)
(***************************************************************************)
\* backendFilter without the renaming of 'tag'.
BackendFilter_NoRename(field) == field

BackendFilter(field) == IF field = K_tag THEN K_tags ELSE field

\* Position of the entry of `key` in obj, 0 when obj[key] is undefined.
EntryOf(obj, key) ==
  IF \E i \in 1..Len(obj) : obj[i].key = key
  THEN CHOOSE i \in 1..Len(obj) : obj[i].key = key
  ELSE 0
\* The loop body assigning a new list even when the key exists.
ToObjectStep_Overwrites(obj, term) ==
  LET st    == SplitTerm(term)
      field == IF st.filter = Null THEN K_any ELSE st.filter
      data  == IF st.filter = Null THEN term ELSE st.data
      backendField == BackendFilter(field)
      at    == EntryOf(obj, backendField)
  IN  IF at # 0
      THEN [obj EXCEPT ![at].values = <<data>>]
      ELSE Append(obj, [key |-> backendField, values |-> <<data>>])

\* The body of the for loop of toObject.
ToObjectStep(obj, term) ==
  LET st    == SplitTerm(term)
      field == IF st.filter = Null THEN K_any ELSE st.filter
      data  == IF st.filter = Null THEN term ELSE st.data
      backendField == BackendFilter(field)
      at    == EntryOf(obj, backendField)
  IN  IF at # 0
      THEN [obj EXCEPT ![at].values = Append(@, data)]
      ELSE Append(obj, [key |-> backendField, values |-> <<data>>])

RECURSIVE ToObjectLoop(_, _)
ToObjectLoop(obj, terms) ==
  IF terms = <<>> THEN obj
  ELSE ToObjectLoop(ToObjectStep(obj, Head(terms)), Tail(terms))

ToObject(text) ==
  LET terms == Tokenize(text)
  IN  IF terms.threw THEN Threw
      ELSE Returned(ToObjectLoop(<<>>, terms.value))

(***************************************************************************)
(* generateFacetedFilter(searchText, focusFilters)                         *)
(***************************************************************************)
SecondsPerDay == 24 * 60 * 60

U_sec   == <<"s", "e", "c">>
U_min   == <<"m", "i", "n">>
U_hour  == <<"h", "o", "u", "r">>
U_day   == <<"d", "a", "y">>
U_week  == <<"w", "e", "e", "k">>
U_month == <<"m", "o", "n", "t", "h">>
U_year  == <<"y", "e", "a", "r">>
\* secondsPerUnit with a month of 31 days.
SecondsPerUnit_Month31(unit) ==
  CASE unit = U_sec   -> 1
    [] unit = U_min   -> 60
    [] unit = U_hour  -> 60 * 60
    [] unit = U_day   -> SecondsPerDay
    [] unit = U_week  -> 7 * SecondsPerDay
    [] unit = U_month -> 31 * SecondsPerDay
    [] unit = U_year  -> 365 * SecondsPerDay

SecondsPerUnit(unit) ==
  CASE unit = U_sec   -> 1
    [] unit = U_min   -> 60
    [] unit = U_hour  -> 60 * 60
    [] unit = U_day   -> SecondsPerDay
    [] unit = U_week  -> 7 * SecondsPerDay
    [] unit = U_month -> 30 * SecondsPerDay
    [] unit = U_year  -> 365 * SecondsPerDay

\* The units the regular expression of `since` accepts.
SinceUnits == {U_sec, U_min, U_hour, U_day, U_week, U_month, U_year}

\* End of the longest run of \d that starts at 0-based position i.
RECURSIVE DigitRunEnd(_, _)
DigitRunEnd(s, i) ==
  IF i < Len(s) /\ s[i + 1] \in Digits THEN DigitRunEnd(s, i + 1) ELSE i

\* time.match(/^(\d+)(sec|min|hour|day|week|month|year)?$/): the groups
\* [matched, digits, unit], unit Null when the optional group is absent.
SinceMatch(time) ==
  LET e    == DigitRunEnd(time, 0)
      rest == SliceFrom(time, e)
  IN  IF e = 0 THEN [matched |-> FALSE, digits |-> <<>>, unit |-> Null]
      ELSE IF rest = <<>>
           THEN [matched |-> TRUE, digits |-> Slice(time, 0, e), unit |-> Null]
           ELSE IF rest \in SinceUnits
                THEN [matched |-> TRUE, digits |-> Slice(time, 0, e), unit |-> rest]
                ELSE [matched |-> FALSE, digits |-> <<>>, unit |-> Null]
\* case 'since' pushing NaN (written -1) for a value that does not match.
SincePush_KeepsMalformed(since, term) ==
  LET time  == ToLowerCase(SliceFrom(term, 6))
      match == SinceMatch(time)
  IN  IF match.matched
      THEN LET value == ParseFloat(match.digits)
               unit  == IF match.unit # Null THEN match.unit ELSE U_sec
           IN  Append(since, value * SecondsPerUnit(unit))
      ELSE Append(since, -1)

\* The block of `case 'since'`: the list since after the term.
SincePush(since, term) ==
  LET time  == ToLowerCase(SliceFrom(term, 6))
      match == SinceMatch(time)
  IN  IF match.matched
      THEN LET value == ParseFloat(match.digits)
               unit  == IF match.unit # Null THEN match.unit ELSE U_sec
           IN  Append(since, value * SecondsPerUnit(unit))
      ELSE since
\* The loop body with the break of case 'user' missing: the term falls
\* through to the default case.
FacetStep_UserFallsThrough(l, term) ==
  LET filter     == Slice(term, 0, IndexOf(term, ":"))
      fieldValue == SliceFrom(term, Len(filter) + 1)
  IN  CASE filter = K_quote -> [l EXCEPT !.quote = Append(@, fieldValue)]
        [] filter = K_since -> [l EXCEPT !.since = SincePush(@, term)]
        [] filter = K_tag   -> [l EXCEPT !.tag = Append(@, fieldValue)]
        [] filter = K_text  -> [l EXCEPT !.text = Append(@, fieldValue)]
        [] filter = K_uri   -> [l EXCEPT !.uri = Append(@, fieldValue)]
        [] filter = K_user  -> [l EXCEPT !.user = Append(@, fieldValue),
                                         !.any = Append(@, term)]
        [] OTHER            -> [l EXCEPT !.any = Append(@, term)]
\* The loop body with the default case pushing the sliced value instead of
\* the term.
FacetStep_DefaultPushesValue(l, term) ==
  LET filter     == Slice(term, 0, IndexOf(term, ":"))
      fieldValue == SliceFrom(term, Len(filter) + 1)
  IN  CASE filter = K_quote -> [l EXCEPT !.quote = Append(@, fieldValue)]
        [] filter = K_since -> [l EXCEPT !.since = SincePush(@, term)]
        [] filter = K_tag   -> [l EXCEPT !.tag = Append(@, fieldValue)]
        [] filter = K_text  -> [l EXCEPT !.text = Append(@, fieldValue)]
        [] filter = K_uri   -> [l EXCEPT !.uri = Append(@, fieldValue)]
        [] filter = K_user  -> [l EXCEPT !.user = Append(@, fieldValue)]
        [] OTHER            -> [l EXCEPT !.any = Append(@, fieldValue)]
\* The loop body with the field value sliced from the ':' on.
FacetStep_ValueKeepsColon(l, term) ==
  LET filter     == Slice(term, 0, IndexOf(term, ":"))
      fieldValue == SliceFrom(term, Len(filter))
  IN  CASE filter = K_quote -> [l EXCEPT !.quote = Append(@, fieldValue)]
        [] filter = K_since -> [l EXCEPT !.since = SincePush(@, term)]
        [] filter = K_tag   -> [l EXCEPT !.tag = Append(@, fieldValue)]
        [] filter = K_text  -> [l EXCEPT !.text = Append(@, fieldValue)]
        [] filter = K_uri   -> [l EXCEPT !.uri = Append(@, fieldValue)]
        [] filter = K_user  -> [l EXCEPT !.user = Append(@, fieldValue)]
        [] OTHER            -> [l EXCEPT !.any = Append(@, term)]

\* The body of the for loop of generateFacetedFilter, on the seven lists.
FacetStep(l, term) ==
  LET filter     == Slice(term, 0, IndexOf(term, ":"))
      fieldValue == SliceFrom(term, Len(filter) + 1)
  IN  CASE filter = K_quote -> [l EXCEPT !.quote = Append(@, fieldValue)]
        [] filter = K_since -> [l EXCEPT !.since = SincePush(@, term)]
        [] filter = K_tag   -> [l EXCEPT !.tag = Append(@, fieldValue)]
        [] filter = K_text  -> [l EXCEPT !.text = Append(@, fieldValue)]
        [] filter = K_uri   -> [l EXCEPT !.uri = Append(@, fieldValue)]
        [] filter = K_user  -> [l EXCEPT !.user = Append(@, fieldValue)]
        [] OTHER            -> [l EXCEPT !.any = Append(@, term)]

RECURSIVE FacetLoop(_, _)
FacetLoop(l, terms) ==
  IF terms = <<>> THEN l
  ELSE FacetLoop(FacetStep(l, Head(terms)), Tail(terms))

\* The focusFilters argument: omitted, or a record whose user is undefined
\* (Null) or a string.  An omitted argument takes the default {}.
OmittedFocus == [given |-> FALSE, user |-> Null]
FocusWith(user) == [given |-> TRUE, user |-> user]

\* focusFilters.user is truthy
FocusUserTruthy(focus) == focus.user # Null /\ focus.user # <<>>
\* The lists before the loop, the focus filter ignored.
InitialLists_IgnoresFocus(focus) ==
  [any |-> <<>>, quote |-> <<>>, since |-> <<>>, tag |-> <<>>, text |-> <<>>,
   uri |-> <<>>, user |-> <<>>]

\* The lists before the loop.
InitialLists(focus) ==
  [any |-> <<>>, quote |-> <<>>, since |-> <<>>, tag |-> <<>>, text |-> <<>>,
   uri |-> <<>>,
   user |-> IF FocusUserTruthy(focus) THEN <<focus.user>> ELSE <<>>]
\* The returned record with the uri facet combined by 'and'.
FacetRecord_UriAnd(l) ==
  [any   |-> [terms |-> l.any,   operator |-> "and"],
   quote |-> [terms |-> l.quote, operator |-> "and"],
   since |-> [terms |-> l.since, operator |-> "and"],
   tag   |-> [terms |-> l.tag,   operator |-> "and"],
   text  |-> [terms |-> l.text,  operator |-> "and"],
   uri   |-> [terms |-> l.uri,   operator |-> "and"],
   user  |-> [terms |-> l.user,  operator |-> "or"]]

\* The returned record.
FacetRecord(l) ==
  [any   |-> [terms |-> l.any,   operator |-> "and"],
   quote |-> [terms |-> l.quote, operator |-> "and"],
   since |-> [terms |-> l.since, operator |-> "and"],
   tag   |-> [terms |-> l.tag,   operator |-> "and"],
   text  |-> [terms |-> l.text,  operator |-> "and"],
   uri   |-> [terms |-> l.uri,   operator |-> "or"],
   user  |-> [terms |-> l.user,  operator |-> "or"]]

GenerateFacetedFilter(text, focus) ==
  LET lists == InitialLists(focus)
      terms == Tokenize(text)
  IN  IF terms.threw THEN Threw
      ELSE Returned(FacetRecord(FacetLoop(lists, terms.value)))

(***************************************************************************)
(* The queries of the model: concatenations of at most MaxPieces pieces.   *)
(***************************************************************************)
Pieces ==
  { K_tag, K_since, K_tag \o <<":">>, K_since \o <<":">>, K_user \o <<":">>,
    K_group \o <<":">>, K_quote \o <<":">>, K_text \o <<":">>,
    K_uri \o <<":">>, <<":">>, <<" ">>, <<"\t">>, <<DQ>>, <<SQ>>, <<"x">>,
    <<"3">>, <<"D", "a", "y">>, <<DQ, "a", " ", "b", DQ>>, <<"T", "a", "g", ":">>,
    K_since \o <<":", "2", " ">>, K_user \o <<":", "y", " ">> }

FocusFilters ==
  { OmittedFocus, FocusWith(Null), FocusWith(<<>>), FocusWith(<<"b", "o", "b">>) }

(***************************************************************************)
(* State machine.                                                          *)
(***************************************************************************)
Init ==
  /\ searchText = <<>>
  /\ pieces = 0
  /\ focusFilters = OmittedFocus
  /\ called = "none"
  /\ arg = <<>>
  /\ ret = Returned(<<>>)

\* The user types one more piece of the query.
TypePiece ==
  /\ called = "none"
  /\ pieces < MaxPieces
  /\ \E p \in Pieces : searchText' = searchText \o p
  /\ pieces' = pieces + 1
  /\ UNCHANGED <<focusFilters, called, arg, ret>>

CallTokenize ==
  /\ called = "none"
  /\ called' = "tokenize"
  /\ arg' = searchText
  /\ ret' = Tokenize(searchText)
  /\ UNCHANGED <<searchText, pieces, focusFilters>>

\* The terms splitTerm is called on for a query: the stripped tokens (in
\* tokenize) and the tokens tokenize returns (in toObject).
SplitTermArguments(text) ==
  LET stripped == StrippedTokens(StringMatch(text).list)
      terms    == Tokenize(text).value
  IN  {stripped[i] : i \in 1..Len(stripped)} \cup {terms[i] : i \in 1..Len(terms)}

CallSplitTerm ==
  /\ called = "none"
  /\ \E t \in SplitTermArguments(searchText) :
        /\ arg' = t
        /\ ret' = Returned(SplitTerm(t))
  /\ called' = "splitTerm"
  /\ UNCHANGED <<searchText, pieces, focusFilters>>

CallToObject ==
  /\ called = "none"
  /\ called' = "toObject"
  /\ arg' = searchText
  /\ ret' = ToObject(searchText)
  /\ UNCHANGED <<searchText, pieces, focusFilters>>

CallGenerateFacetedFilter ==
  /\ called = "none"
  /\ \E f \in FocusFilters :
        /\ focusFilters' = f
        /\ ret' = GenerateFacetedFilter(searchText, f)
  /\ called' = "generateFacetedFilter"
  /\ arg' = searchText
  /\ UNCHANGED <<searchText, pieces>>

Next ==
  \/ TypePiece
  \/ CallTokenize
  \/ CallSplitTerm
  \/ CallToObject
  \/ CallGenerateFacetedFilter

Spec == Init /\ [][Next]_vars

(***************************************************************************)
(* The queries of the duration parser: at most MaxSinceTokens tokens       *)
(* since:<digits><unit>, separated by one space.                           *)
(***************************************************************************)
MaxSinceTokens == 2

SinceDigits == { <<>>, <<"3">>, <<"2", "0">> }

SinceSuffixes ==
  { <<>>, U_sec, <<"M", "i", "n">>, <<"H", "O", "U", "R">>, U_day,
    <<"W", "e", "e", "k">>, <<"m", "o", "n", "t", "H">>, U_year,
    <<"d", "a", "y", "s">>, <<"x">> }

SinceTokens ==
  { K_since \o <<":">> \o d \o u : d \in SinceDigits, u \in SinceSuffixes }

TypeSinceToken ==
  /\ called = "none"
  /\ pieces < MaxSinceTokens
  /\ \E t \in SinceTokens :
        searchText' = IF searchText = <<>> THEN t ELSE searchText \o <<" ">> \o t
  /\ pieces' = pieces + 1
  /\ UNCHANGED <<focusFilters, called, arg, ret>>

NextSince ==
  \/ TypeSinceToken
  \/ CallGenerateFacetedFilter

SpecSince == Init /\ [][NextSince]_vars

(***************************************************************************)
(* The queries of the tokenizer: at most MaxQuotePieces quotes, blanks,    *)
(* colons and words, on which tokenize and removeSurroundingQuotes are     *)
(* called.                                                                 *)
(***************************************************************************)
MaxQuotePieces == 5

QuotePieces == { <<DQ>>, <<SQ>>, <<" ">>, <<"x">>, <<":">>, K_tag }

TypeQuotePiece ==
  /\ called = "none"
  /\ pieces < MaxQuotePieces
  /\ \E p \in QuotePieces : searchText' = searchText \o p
  /\ pieces' = pieces + 1
  /\ UNCHANGED <<focusFilters, called, arg, ret>>

\* The texts tokenize calls removeSurroundingQuotes on for a query: the
\* matches of the regular expression, and the data of the stripped tokens
\* that have a filter.
RemoveSurroundingQuotesArguments(text) ==
  LET tokenMatches == StringMatch(text).list
      stripped     == StrippedTokens(tokenMatches)
  IN  {tokenMatches[i] : i \in 1..Len(tokenMatches)}
        \cup {SplitTerm(stripped[i]).data :
                i \in {n \in 1..Len(stripped) : SplitTerm(stripped[n]).filter # Null}}

CallRemoveSurroundingQuotes ==
  /\ called = "none"
  /\ \E t \in RemoveSurroundingQuotesArguments(searchText) :
        /\ arg' = t
        /\ ret' = Returned(RemoveSurroundingQuotes(t))
  /\ called' = "removeSurroundingQuotes"
  /\ UNCHANGED <<searchText, pieces, focusFilters>>

NextQuote ==
  \/ TypeQuotePiece
  \/ CallTokenize
  \/ CallRemoveSurroundingQuotes

SpecQuote == Init /\ [][NextQuote]_vars

(***************************************************************************)
(* Vocabulary of the properties.                                           *)
(***************************************************************************)
HasColon(t) == \E i \in 1..Len(t) : t[i] = ":"

\* 1-based position of the first ':' of a token that has one.
FirstColon(t) ==
  CHOOSE i \in 1..Len(t) : t[i] = ":" /\ \A j \in 1..(i - 1) : t[j] # ":"

BeforeFirstColon(t) == SubSeq(t, 1, FirstColon(t) - 1)
AfterFirstColon(t) == SubSeq(t, FirstColon(t) + 1, Len(t))

RecognizedFields == {K_group, K_quote, K_since, K_tag, K_text, K_uri, K_user}

\* The token is <field>:<value> for a recognized field.
HasField(t, fields) == HasColon(t) /\ BeforeFirstColon(t) \in fields

RECURSIVE SeqSum(_)
SeqSum(lens) == IF lens = <<>> THEN 0 ELSE Head(lens) + SeqSum(Tail(lens))

\* The value of a string of decimal digits.
RECURSIVE DecimalValue(_)
DecimalValue(d) ==
  IF d = <<>> THEN 0
  ELSE 10 * DecimalValue(SubSeq(d, 1, Len(d) - 1))
         + (CHOOSE n \in 0..9 :
              d[Len(d)] = <<"0", "1", "2", "3", "4", "5", "6", "7", "8", "9">>[n + 1])

\* Length of the longest prefix of v made of decimal digits.
LeadingDigits(v) ==
  CHOOSE n \in 0..Len(v) :
    /\ \A i \in 1..n : v[i] \in Digits
    /\ n < Len(v) => v[n + 1] \notin Digits

\* Seconds of a unit written in lower case; no unit means seconds.
UnitSeconds(u) ==
  CASE u = <<>>    -> 1
    [] u = U_sec   -> 1
    [] u = U_min   -> 60
    [] u = U_hour  -> 3600
    [] u = U_day   -> 86400
    [] u = U_week  -> 604800
    [] u = U_month -> 2592000
    [] u = U_year  -> 31536000

\* The duration grammar: digits followed by an optional unit in any case.
IsDuration(v) ==
  /\ LeadingDigits(v) >= 1
  /\ ToLowerCase(SubSeq(v, LeadingDigits(v) + 1, Len(v)))
        \in {<<>>, U_sec, U_min, U_hour, U_day, U_week, U_month, U_year}

DurationSeconds(v) ==
  DecimalValue(SubSeq(v, 1, LeadingDigits(v)))
    * UnitSeconds(ToLowerCase(SubSeq(v, LeadingDigits(v) + 1, Len(v))))

IsSinceToken(t) == HasField(t, {K_since})
IsGoodSince(t) == IsSinceToken(t) /\ IsDuration(AfterFirstColon(t))
IsBadSince(t) == IsSinceToken(t) /\ ~IsDuration(AfterFirstColon(t))
IsNotBadSince(t) == ~IsBadSince(t)
IsUserToken(t) == HasField(t, {K_user})

\* The facet a token belongs to, and the key toObject lists it under.
FacetFields == {K_quote, K_since, K_tag, K_text, K_uri, K_user}
FacetOf(t) == IF HasField(t, FacetFields) THEN BeforeFirstColon(t) ELSE K_any
FlatKey(t) ==
  IF HasField(t, RecognizedFields)
  THEN (IF BeforeFirstColon(t) = K_tag THEN K_tags ELSE BeforeFirstColon(t))
  ELSE K_any
FlatValue(t) == IF HasField(t, RecognizedFields) THEN AfterFirstColon(t) ELSE t

\* The tokens of toks that belong to facet f, in order.
TokensOfFacet(toks, f) == LET In(t) == FacetOf(t) = f IN SelectSeq(toks, In)
TokensOfKey(toks, k) == LET In(t) == FlatKey(t) = k IN SelectSeq(toks, In)
ValuesAfterColon(toks) == [i \in 1..Len(toks) |-> AfterFirstColon(toks[i])]

FacetName(f) ==
  CASE f = K_any -> "any" [] f = K_quote -> "quote" [] f = K_since -> "since"
    [] f = K_tag -> "tag" [] f = K_text -> "text" [] f = K_uri -> "uri"
    [] f = K_user -> "user"

FocusUserGiven == focusFilters.user # Null /\ focusFilters.user # <<>>

(***************************************************************************)
(* Properties.                                                             *)
(***************************************************************************)
FacetKeys == {"any", "quote", "since", "tag", "text", "uri", "user"}

\* C1: for every query that contains no ':', toObject returns the empty map
\* (no tokens) or a map whose only key is 'any', whose list is the sequence of
\* the tokens of the query in order of appearance.
C1_NoColonOnlyAny ==
  (called = "toObject" /\ ~HasColon(arg)) =>
     /\ ~ret.threw
     /\ IF Tokenize(arg).value = <<>>
        THEN ret.value = <<>>
        ELSE ret.value = <<[key |-> K_any, values |-> Tokenize(arg).value]>>

\* C2: generateFacetedFilter returns a record with exactly the seven keys any,
\* quote, since, tag, text, uri, user; any, quote, since, tag and text are
\* combined by 'and', uri and user by 'or'; for the empty query without a
\* focus user every term list is empty.
C2_SevenFacets ==
  called = "generateFacetedFilter" =>
     /\ ~ret.threw
     /\ DOMAIN ret.value = FacetKeys
     /\ \A k \in {"any", "quote", "since", "tag", "text"} :
           ret.value[k].operator = "and"
     /\ \A k \in {"uri", "user"} : ret.value[k].operator = "or"
     /\ (arg = <<>> /\ focusFilters.user = Null) =>
           \A k \in FacetKeys : ret.value[k].terms = <<>>

\* generateFacetedFilter('') without focus has returned seven empty facets.
C2_Witness ==
  /\ called = "generateFacetedFilter"
  /\ arg = <<>>
  /\ focusFilters = OmittedFocus
  /\ DOMAIN ret.value = FacetKeys
  /\ \A k \in FacetKeys : ret.value[k].terms = <<>>

\* C3: toObject and generateFacetedFilter return a value and never raise an
\* error, whatever the query (empty, whitespace only, unbalanced quotes,
\* malformed since: values) and whatever the focus (omitted or a record).
C3_NeverThrows ==
  called \in {"toObject", "generateFacetedFilter"} => ~ret.threw

\* generateFacetedFilter has returned for a non-empty query in which the
\* regular expression of tokenize matches nothing (whitespace and unbalanced
\* quotes only).
C3_Witness ==
  /\ called = "generateFacetedFilter"
  /\ arg # <<>>
  /\ StringMatch(arg).isNull
  /\ \E i \in 1..Len(arg) : arg[i] \in {DQ, SQ}
  /\ ~ret.threw

\* C4: for every token that contains no ':', splitTerm returns field = null and
\* value = the whole token.
C4_NoColonWholeToken ==
  (called = "splitTerm" /\ ~HasColon(arg)) =>
     ret.value = [filter |-> Null, data |-> arg]

\* C5: for every token that contains a ':', with p the text before the first
\* ':': if p is one of group, quote, since, tag, text, uri, user (compared
\* case-sensitively) splitTerm returns (p, the text after the first ':'),
\* otherwise (null, the whole token).
C5_ColonSplit ==
  (called = "splitTerm" /\ HasColon(arg)) =>
     IF BeforeFirstColon(arg) \in RecognizedFields
     THEN ret.value = [filter |-> BeforeFirstColon(arg),
                       data |-> AfterFirstColon(arg)]
     ELSE ret.value = [filter |-> Null, data |-> arg]

\* splitTerm('user:x') has returned ('user', 'x').
C5_Witness ==
  /\ called = "splitTerm"
  /\ arg = K_user \o <<":", "x">>
  /\ ret.value = [filter |-> K_user, data |-> <<"x">>]

\* C6: for the tokens since:<digits><unit>, unit absent or one of sec, min,
\* hour, day, week, month, year in any letter case, since.terms is the list of
\* digits x multiplier (1, 60, 3600, 86400, 604800, 2592000, 31536000; no unit
\* means seconds), in the order of the tokens.
C6_SinceSeconds ==
  called = "generateFacetedFilter" =>
     LET good == SelectSeq(Tokenize(arg).value, IsGoodSince)
     IN  ret.value.since.terms =
           [i \in 1..Len(good) |-> DurationSeconds(AfterFirstColon(good[i]))]

\* generateFacetedFilter('since:3day since:20Min') has returned
\* since.terms = [259200, 1200].
C6_Witness ==
  /\ called = "generateFacetedFilter"
  /\ arg = K_since \o <<":", "3">> \o U_day \o <<" ">>
             \o K_since \o <<":", "2", "0", "M", "i", "n">>
  /\ ret.value.since.terms = <<259200, 1200>>

\* C7: a since: token whose value does not match the duration grammar adds
\* nothing to any facet, and the result is the one of the query without it.
C7_MalformedSinceDropped ==
  called = "generateFacetedFilter" =>
     LET toks == Tokenize(arg).value
         kept == SelectSeq(toks, IsNotBadSince)
     IN  /\ ret.value =
              FacetRecord(FacetLoop(InitialLists(focusFilters), kept))
         /\ Len(ret.value.since.terms) = Len(SelectSeq(toks, IsGoodSince))
         /\ ret.value.any.terms = TokensOfFacet(toks, K_any)

\* generateFacetedFilter('user:y since:x') has returned user.terms = ['y'] and
\* nothing for since:x.
C7_Witness ==
  /\ called = "generateFacetedFilter"
  /\ focusFilters = OmittedFocus
  /\ Tokenize(arg).value = <<K_user \o <<":", "y">>, K_since \o <<":", "x">>>>
  /\ ret.value.since.terms = <<>>
  /\ ret.value.any.terms = <<>>
  /\ ret.value.user.terms = <<<<"y">>>>

\* C8: user.terms is the focus user (when one is given) followed by the values
\* of the user: tokens of the query in order; without a focus user it is those
\* values only; the focus changes no other facet.
C8_FocusUserFirst ==
  called = "generateFacetedFilter" =>
     LET parsed  == ValuesAfterColon(SelectSeq(Tokenize(arg).value, IsUserToken))
         unfocus == GenerateFacetedFilter(arg, OmittedFocus).value
     IN  /\ ret.value.user.terms =
              (IF FocusUserGiven THEN <<focusFilters.user>> ELSE <<>>) \o parsed
         /\ [k \in FacetKeys \ {"user"} |-> ret.value[k]]
              = [k \in FacetKeys \ {"user"} |-> unfocus[k]]

\* generateFacetedFilter('user:y user:x', {user: 'bob'}) has returned
\* user.terms = ['bob', 'y', 'x'].
C8_Witness ==
  /\ called = "generateFacetedFilter"
  /\ focusFilters = FocusWith(<<"b", "o", "b">>)
  /\ ret.value.user.terms = <<<<"b", "o", "b">>, <<"y">>, <<"x">>>>

\* C9: without focus, every token of tokenize(searchText) contributes to
\* exactly one facet, in order of appearance, except the since: tokens whose
\* value fails the duration grammar, which contribute to none; the number of
\* terms is the number of tokens minus the number of dropped since: tokens.
C9_OneFacetPerToken ==
  (called = "generateFacetedFilter" /\ focusFilters.user = Null) =>
     LET toks == Tokenize(arg).value
         r    == ret.value
     IN  /\ r.any.terms = TokensOfFacet(toks, K_any)
         /\ \A f \in {K_quote, K_tag, K_text, K_uri, K_user} :
               r[FacetName(f)].terms = ValuesAfterColon(TokensOfFacet(toks, f))
         /\ Len(r.since.terms) = Len(SelectSeq(toks, IsGoodSince))
         /\ SeqSum(<<Len(r.any.terms), Len(r.quote.terms), Len(r.since.terms),
                     Len(r.tag.terms), Len(r.text.terms), Len(r.uri.terms),
                     Len(r.user.terms)>>)
              = Len(toks) - Len(SelectSeq(toks, IsBadSince))

\* generateFacetedFilter('since:2 since:x') has returned since.terms = [2]:
\* two tokens, one term, the second token dropped.
C9_Witness ==
  /\ called = "generateFacetedFilter"
  /\ focusFilters.user = Null
  /\ Tokenize(arg).value = <<K_since \o <<":", "2">>, K_since \o <<":", "x">>>>
  /\ Len(SelectSeq(Tokenize(arg).value, IsBadSince)) = 1
  /\ ret.value.since.terms = <<2>>
  /\ ret.value.any.terms = <<>>

\* C10: toObject partitions the tokens of tokenize(searchText): the keys are
\* distinct, the list of a key is the in-order sequence of the values of the
\* tokens of that key, every token has its key, and the lengths of the lists
\* add up to the number of tokens.
C10_ToObjectPartition ==
  called = "toObject" =>
     LET toks == Tokenize(arg).value
         obj  == ret.value
     IN  /\ \A i, j \in 1..Len(obj) : obj[i].key = obj[j].key => i = j
         /\ \A i \in 1..Len(obj) :
               LET mine == TokensOfKey(toks, obj[i].key)
               IN  obj[i].values = [n \in 1..Len(mine) |-> FlatValue(mine[n])]
         /\ \A n \in 1..Len(toks) :
               \E i \in 1..Len(obj) : obj[i].key = FlatKey(toks[n])
         /\ SeqSum([i \in 1..Len(obj) |-> Len(obj[i].values)]) = Len(toks)

\* toObject('user:y user:x') has returned {user: ['y', 'x']}.
C10_Witness ==
  /\ called = "toObject"
  /\ Len(Tokenize(arg).value) = 2
  /\ ret.value = <<[key |-> K_user, values |-> <<<<"y">>, <<"x">>>>]>>

\* The keys a toObject result can hold.
FlatKeys == {K_any, K_group, K_quote, K_since, K_tags, K_text, K_uri, K_user}

\* C11: every key of a toObject result is one of any, group, quote, since,
\* tags, text, uri, user and maps to a non-empty list; 'tag' is never a key:
\* the value of a tag: token is listed under 'tags', the value of a token of
\* any other recognized field under the name of the field.
C11_FlatKeys ==
  called = "toObject" =>
     LET toks == Tokenize(arg).value
         obj  == ret.value
     IN  /\ \A i \in 1..Len(obj) :
               /\ obj[i].key \in FlatKeys
               /\ obj[i].key # K_tag
               /\ Len(obj[i].values) >= 1
         /\ \A n \in 1..Len(toks) :
               HasField(toks[n], RecognizedFields) =>
                  \E i \in 1..Len(obj) :
                     /\ obj[i].key = (IF BeforeFirstColon(toks[n]) = K_tag
                                      THEN K_tags ELSE BeforeFirstColon(toks[n]))
                     /\ \E m \in 1..Len(obj[i].values) :
                           obj[i].values[m] = AfterFirstColon(toks[n])

\* toObject('user:y tag:x') has returned {user: ['y'], tags: ['x']}.
C11_Witness ==
  /\ called = "toObject"
  /\ ret.value = <<[key |-> K_user, values |-> <<<<"y">>>>],
                   [key |-> K_tags, values |-> <<<<"x">>>>]>>

IsGroupToken(t) == HasField(t, {K_group})
IsNotGroupToken(t) == ~IsGroupToken(t)

\* The list toObject holds under a key, empty when the key is absent.
FlatList(obj, key) ==
  IF \E i \in 1..Len(obj) : obj[i].key = key
  THEN obj[CHOOSE i \in 1..Len(obj) : obj[i].key = key].values
  ELSE <<>>

\* C12: for the tokens group:<v>, toObject lists the values <v> under the key
\* 'group', while generateFacetedFilter appends the whole tokens 'group:<v>'
\* to any.terms and nothing to any other facet.
C12_GroupAsymmetry ==
  /\ called = "toObject" =>
        FlatList(ret.value, K_group)
          = ValuesAfterColon(SelectSeq(Tokenize(arg).value, IsGroupToken))
  /\ called = "generateFacetedFilter" =>
        LET toks    == Tokenize(arg).value
            nogroup == FacetLoop(InitialLists(focusFilters),
                                 SelectSeq(toks, IsNotGroupToken))
        IN  /\ SelectSeq(ret.value.any.terms, IsGroupToken)
                 = SelectSeq(toks, IsGroupToken)
            /\ SelectSeq(ret.value.any.terms, IsNotGroupToken) = nogroup.any
            /\ \A k \in FacetKeys \ {"any"} : ret.value[k].terms = nogroup[k]

\* generateFacetedFilter('user:y group:x') has returned any.terms =
\* ['group:x'] and user.terms = ['y'], where toObject returns
\* {user: ['y'], group: ['x']}.
C12_Witness ==
  /\ called = "generateFacetedFilter"
  /\ focusFilters = OmittedFocus
  /\ ret.value.any.terms = <<K_group \o <<":", "x">>>>
  /\ ret.value.user.terms = <<<<"y">>>>
  /\ ToObject(arg).value = <<[key |-> K_user, values |-> <<<<"y">>>>],
                             [key |-> K_group, values |-> <<<<"x">>>>]>>

\* The balanced quoted spans of a text, as pairs <<opening, closing>> of
\* positions: reading from position i on, a quote character that has a later
\* occurrence of the same character opens a span that closes at the next one.
RECURSIVE SpansFrom(_, _)
SpansFrom(s, i) ==
  IF i > Len(s) THEN {}
  ELSE IF s[i] \in {DQ, SQ} /\ \E j \in (i + 1)..Len(s) : s[j] = s[i]
       THEN LET j == CHOOSE j \in (i + 1)..Len(s) :
                       s[j] = s[i] /\ \A k \in (i + 1)..(j - 1) : s[k] # s[i]
            IN  {<<i, j>>} \cup SpansFrom(s, j + 1)
       ELSE SpansFrom(s, i + 1)

QuotedSpans(s) == SpansFrom(s, 1)
InQuotedSpan(s, p) == \E sp \in QuotedSpans(s) : sp[1] <= p /\ p <= sp[2]
SpanContent(s, sp) == SubSeq(s, sp[1] + 1, sp[2] - 1)

\* The quote characters of a text that belong to no balanced span.
UnbalancedQuotes(s) ==
  {p \in 1..Len(s) : s[p] \in {DQ, SQ} /\ ~InQuotedSpan(s, p)}

\* Whitespace outside the balanced quoted spans.
IsSeparator(s, p) == s[p] \in Whitespace /\ ~InQuotedSpan(s, p)

\* The number of maximal runs of characters between separators.
SeparatedRuns(s) ==
  Cardinality({p \in 1..Len(s) :
                 ~IsSeparator(s, p) /\ (p = 1 \/ IsSeparator(s, p - 1))})

\* sub occurs in t as a run of consecutive characters.
Contains(t, sub) ==
  \E k \in 0..(Len(t) - Len(sub)) : SubSeq(t, k + 1, k + Len(sub)) = sub

InSomeToken(toks, sub) == \E n \in 1..Len(toks) : Contains(toks[n], sub)

\* C13: tokenize separates tokens only at whitespace outside balanced quoted
\* spans: the content of a balanced quoted span that holds whitespace is kept
\* verbatim inside one token, and a bareword directly followed by a quoted
\* span is in one token with it.
C13_SplitOnlyAtOuterWhitespace ==
  called = "tokenize" =>
     LET toks == ret.value
     IN  /\ Len(toks) <= SeparatedRuns(arg)
         /\ \A sp \in QuotedSpans(arg) :
               (\E p \in (sp[1] + 1)..(sp[2] - 1) : arg[p] \in Whitespace) =>
                  InSomeToken(toks, SpanContent(arg, sp))
         /\ \A sp \in QuotedSpans(arg) :
               (sp[1] > 1 /\ IsBare(arg[sp[1] - 1])) =>
                  \/ InSomeToken(toks, <<arg[sp[1] - 1]>> \o SpanContent(arg, sp))
                  \/ InSomeToken(toks, <<arg[sp[1] - 1], arg[sp[1]]>>
                                          \o SpanContent(arg, sp))

\* C14: an unbalanced quote character of the query is literal text: it is
\* kept inside a returned token and, between two characters of barewords, it
\* does not separate them.
C14_UnbalancedQuoteLiteral ==
  called = "tokenize" =>
     \A p \in UnbalancedQuotes(arg) :
        /\ InSomeToken(ret.value, <<arg[p]>>)
        /\ (p > 1 /\ p < Len(arg) /\ IsBare(arg[p - 1]) /\ IsBare(arg[p + 1])) =>
              InSomeToken(ret.value, <<arg[p - 1], arg[p], arg[p + 1]>>)

\* A non-empty text without whitespace, quote or ':'.
IsBareToken(t) ==
  /\ t # <<>>
  /\ \A i \in 1..Len(t) : t[i] \notin Whitespace \cup {DQ, SQ, ":"}

\* C15: for a single bare token t (non-empty, no whitespace, quote or ':'),
\* tokenize(t) = [t], and tokenizing that token again gives [t].
C15_BareTokenIdempotent ==
  (called = "tokenize" /\ IsBareToken(arg)) =>
     /\ ret.value = <<arg>>
     /\ \A n \in 1..Len(ret.value) : Tokenize(ret.value[n]).value = <<arg>>

\* C16: every token tokenize returns is a non-empty string; an empty query, a
\* query of whitespace only and a query made of one empty quoted span give no
\* token.
C16_TokensNonEmpty ==
  called = "tokenize" =>
     /\ ~ret.threw
     /\ \A n \in 1..Len(ret.value) : Len(ret.value[n]) >= 1
     /\ (\/ \A i \in 1..Len(arg) : arg[i] \in Whitespace
         \/ arg = <<DQ, DQ>>
         \/ arg = <<SQ, SQ>>) => ret.value = <<>>

\* tokenize of a query holding an empty quoted span and a word has returned
\* the word only.
C16_Witness ==
  /\ called = "tokenize"
  /\ arg = <<DQ, DQ, " ", "x">>
  /\ ret.value = <<<<"x">>>>

\* C17: removeSurroundingQuotes returns the text without its first and last
\* character when these are two characters and the same quote character, and
\* the text unchanged otherwise, a text that is one quote character included;
\* for the matches and for the field values tokenize calls it on.
C17_RemovesOnlyAPair ==
  called = "removeSurroundingQuotes" =>
     IF Len(arg) >= 2 /\ arg[1] \in {DQ, SQ} /\ arg[Len(arg)] = arg[1]
     THEN ret.value = SubSeq(arg, 2, Len(arg) - 1) /\ Len(ret.value) = Len(arg) - 2
     ELSE ret.value = arg

HasNoColon(t) == ~HasColon(t)

\* C18: every token of tokenize(searchText) that contains no ':' is appended
\* unchanged to any.terms and adds nothing to quote, since, tag, text, uri or
\* user, also when the token without its last character is a field name.
C18_ColonlessTokensToAny ==
  called = "generateFacetedFilter" =>
     LET toks      == Tokenize(arg).value
         withcolon == FacetLoop(InitialLists(focusFilters),
                                SelectSeq(toks, HasColon))
     IN  /\ SelectSeq(ret.value.any.terms, HasNoColon)
              = SelectSeq(toks, HasNoColon)
         /\ \A k \in FacetKeys \ {"any"} : ret.value[k].terms = withcolon[k]

\* generateFacetedFilter('since tag') has returned any.terms =
\* ['since', 'tag'] and no other term.
C18_Witness ==
  /\ called = "generateFacetedFilter"
  /\ focusFilters = OmittedFocus
  /\ arg = K_since \o <<" ">> \o K_tag
  /\ ret.value.any.terms = <<K_since, K_tag>>
  /\ \A k \in FacetKeys \ {"any"} : ret.value[k].terms = <<>>

\* The fields the flat and the faceted form share, with their flat keys.
SharedFields == {K_quote, K_tag, K_text, K_uri, K_user}
FlatKeyOf(f) == IF f = K_tag THEN K_tags ELSE f

\* C19: without a focus filter, for each field X of quote, tag, text, uri,
\* user the term list of facet X of generateFacetedFilter is the list
\* toObject holds under X ('tags' for tag), an absent key counting as the
\* empty list.
C19_FlatAndFacetedAgree ==
  /\ (called = "generateFacetedFilter" /\ focusFilters.user = Null) =>
        LET flat == ToObject(arg).value
        IN  [f \in SharedFields |-> ret.value[FacetName(f)].terms]
              = [f \in SharedFields |-> FlatList(flat, FlatKeyOf(f))]
  /\ called = "toObject" =>
        LET faceted == GenerateFacetedFilter(arg, OmittedFocus).value
        IN  [f \in SharedFields |-> FlatList(ret.value, FlatKeyOf(f))]
              = [f \in SharedFields |-> faceted[FacetName(f)].terms]

\* generateFacetedFilter('user:y tag:x') has returned user.terms = ['y'] and
\* tag.terms = ['x'], where toObject returns {user: ['y'], tags: ['x']}.
C19_Witness ==
  /\ called = "generateFacetedFilter"
  /\ focusFilters = OmittedFocus
  /\ ret.value.user.terms = <<<<"y">>>>
  /\ ret.value.tag.terms = <<<<"x">>>>
  /\ ToObject(arg).value = <<[key |-> K_user, values |-> <<<<"y">>>>],
                             [key |-> K_tags, values |-> <<<<"x">>>>]>>

====
